---- MODULE Spec2Model ----
(***************************************************************************)
(* The movie catalog service: the routes of src/routes/movies.py over the  *)
(* request schemas of src/schemas/movies.py.  The relational store         *)
(* (database/models.py, get_db) is modelled from the data model of the     *)
(* specification, sections 3 and 5: its tables, its uniqueness constraints *)
(* and its transactions.                                                   *)
(***************************************************************************)
EXTENDS Integers, Sequences, FiniteSets, TLC

VARIABLES db, req, resp, before, sess

vars == <<db, req, resp, before, sess>>

(***************************************************************************)
(* Bounds of the model.                                                    *)
(***************************************************************************)
\* movies the sequential catalog may hold at once
MaxMovies == 2
\* fields one PATCH payload sets explicitly
MaxSet == 2
\* movies the catalog may hold while lists are paged
MaxCatalog == 3
\* largest page number requested
MaxPage == 4
\* requests committed by others while one list call is between its two queries
MaxBetween == 1
\* create calls each concurrent worker makes
MaxCalls == 2

(***************************************************************************)
(* Program constants.                                                      *)
(***************************************************************************)
MaxNameLen == 255
MaxScore == 100
CodeLen == 3
MaxFutureDays == 365
MaxPerPage == 20

\* date.today(), as a day number; dates are day numbers too
Today == 0

Fields == {"name", "date", "score", "overview", "status", "budget", "revenue"}
KindSet == {"genre", "actor", "language"}
Kinds == <<"genre", "actor", "language">>

LongName == "xxxxxxxxxxxxxxxxxxxxxxxxxxxxxxxxxxxxxxxxxxxxxxxxxxxxxxxxxxxxxxxxxxxxxxxxxxxxxxxxxxxxxxxxxxxxxxxxxxxxxxxxxxxxxxxxxxxxxxxxxxxxxxxxxxxxxxxxxxxxxxxxxxxxxxxxxxxxxxxxxxxxxxxxxxxxxxxxxxxxxxxxxxxxxxxxxxxxxxxxxxxxxxxxxxxxxxxxxxxxxxxxxxxxxxxxxxxxxxxxxxxxxxxxxxxxxxxx"

MovieStatusEnum == {"Released", "Post Production", "In Production"}

\* pycountry.countries.get(alpha_3=code): the ISO-3166 entry, or None
NoCountry == "<none>"
pycountry_get(code) ==
    CASE code = "USA" -> "United States"
      [] code = "FRA" -> "France"
      [] OTHER -> NoCountry

(***************************************************************************)
(* The store.                                                              *)
(***************************************************************************)
EmptyDb ==
    [movies |-> {}, countries |-> {},
     tags |-> [k \in KindSet |-> {}],
     links |-> [k \in KindSet |-> {}],
     lock |-> 0]

EmptyTx == [countries |-> {}, tags |-> [k \in KindSet |-> {}]]

Ids(rows) == {r.id : r \in rows}

MaxOf(S) == CHOOSE m \in S : \A n \in S : n <= m

\* the id the store generates for a new row of a table
NewId(rows) == IF rows = {} THEN 1 ELSE MaxOf(Ids(rows)) + 1

\* UNIQUE(code) on Country
CountryUnique(rows, code) == \A r \in rows : r.code # code

\* UNIQUE(name) on Genre, Actor, Language
TagUnique(rows, name) == \A r \in rows : r.name # name

\* a Movie table without the constraint
MovieUnique_absent(rows, m) == TRUE

\* UNIQUE(name, date) on Movie, checked against the other rows
MovieUnique(rows, m) ==
    \A r \in rows : r.id # m.id => ~(r.name = m.name /\ r.date = m.date)

\* a session that ends without commit: its pending rows go, its lock is freed
Rollback(d, s) == [d EXCEPT !.lock = IF d.lock = s.id THEN 0 ELSE d.lock]

\* the link rows of a movie: one per (movie, related row) pair
LinkRows(mid, items) == {<<mid, items[i]>> : i \in 1..Len(items)}

\* DELETE of a movie row: its link rows go with it, the rows they point to stay
DeleteRow(d, movie_id) ==
    [d EXCEPT !.movies = {m \in @ : m.id # movie_id},
              !.links = [k \in KindSet |-> {l \in @[k] : l[1] # movie_id}]]

(***************************************************************************)
(* src/schemas/movies.py                                                   *)
(***************************************************************************)
date_validation(value) == value <= Today + MaxFutureDays

MovieCreateSchema(p) ==
    /\ Len(p.name) <= MaxNameLen
    /\ date_validation(p.date)
    /\ p.score >= 0 /\ p.score <= MaxScore
    /\ p.status \in MovieStatusEnum
    /\ p.budget >= 0
    /\ p.revenue >= 0
    /\ Len(p.country) >= CodeLen /\ Len(p.country) <= CodeLen

\* u = [set |-> keys present, nulls |-> keys given as null, val |-> values]
Given(u, f) == f \in u.set /\ f \notin u.nulls

MovieUpdateSchema(u) ==
    /\ Given(u, "score") => u.val.score >= 0 /\ u.val.score <= MaxScore
    /\ Given(u, "status") => u.val.status \in MovieStatusEnum
    /\ Given(u, "budget") => u.val.budget >= 0
    /\ Given(u, "revenue") => u.val.revenue >= 0

(***************************************************************************)
(* Sessions: one per request in flight (get_db hands each request its own). *)
(***************************************************************************)
NoReq == [op |-> "none"]
NoResp == [status |-> 0]

IdleSess(n) == [pc |-> "idle", calls |-> n]

NewPost(id, n, p) ==
    [id |-> id, calls |-> n, op |-> "post", pc |-> "check", p |-> p,
     tx |-> EmptyTx, country |-> 0,
     items |-> [k \in KindSet |-> <<>>], k |-> 1, i |-> 1,
     made |-> {}, movie |-> 0, at |-> "", status |-> 0, error |-> ""]

\* the handler ends: HTTPException, an exception nobody catches, or return
Finish(s, status, error) ==
    [s EXCEPT !.pc = "done", !.at = s.pc, !.status = status, !.error = error,
              !.tx = EmptyTx]

NameList(p, kind) ==
    CASE kind = "genre" -> p.genres
      [] kind = "actor" -> p.actors
      [] OTHER -> p.languages

\* where the three get_or_create loops stand: the next name to look up, or
\* past the last list
RECURSIVE Advance(_)
Advance(s) ==
    IF s.k > Len(Kinds) THEN [s EXCEPT !.pc = "commit"]
    ELSE IF s.i > Len(NameList(s.p, Kinds[s.k]))
         THEN Advance([s EXCEPT !.k = @ + 1, !.i = 1])
         ELSE [s EXCEPT !.pc = "select_tag"]

(***************************************************************************)
(* post_movie, one operator per awaited statement.                         *)
(***************************************************************************)
\* post_movie without its duplicate check
post_check_skipped(d, s) == [db |-> d, s |-> [s EXCEPT !.pc = "select_country"]]

post_check(d, s) ==
    IF \E m \in d.movies : m.name = s.p.name /\ m.date = s.p.date
    THEN [db |-> d, s |-> Finish(s, 409, "Conflict")]
    ELSE [db |-> d, s |-> [s EXCEPT !.pc = "select_country"]]

post_select_country(d, s) ==
    LET found == {c \in d.countries \cup s.tx.countries : c.code = s.p.country}
    IN  IF found # {}
        THEN [db |-> d,
              s |-> Advance([s EXCEPT !.country = (CHOOSE c \in found : TRUE).id])]
        ELSE IF pycountry_get(s.p.country) = NoCountry
             THEN [db |-> Rollback(d, s), s |-> Finish(s, 500, "AttributeError")]
             ELSE [db |-> d, s |-> [s EXCEPT !.pc = "flush_country"]]

post_flush_country(d, s) ==
    LET rows == d.countries \cup s.tx.countries
        row == [id |-> NewId(rows), code |-> s.p.country,
                name |-> pycountry_get(s.p.country)]
    IN  IF ~CountryUnique(rows, row.code)
        THEN [db |-> Rollback(d, s), s |-> Finish(s, 500, "IntegrityError")]
        ELSE [db |-> [d EXCEPT !.lock = s.id],
              s |-> Advance([s EXCEPT !.tx.countries = @ \cup {row},
                                      !.country = row.id,
                                      !.made = @ \cup {<<"country", row.id>>}])]

\* get_or_create appending only the rows it created
get_or_create_select_unlinked(d, s) ==
    LET kind == Kinds[s.k]
        name == NameList(s.p, kind)[s.i]
        found == {t \in d.tags[kind] \cup s.tx.tags[kind] : t.name = name}
    IN  IF found # {}
        THEN [db |-> d, s |-> Advance([s EXCEPT !.i = @ + 1])]
        ELSE [db |-> d, s |-> [s EXCEPT !.pc = "flush_tag"]]

get_or_create_select(d, s) ==
    LET kind == Kinds[s.k]
        name == NameList(s.p, kind)[s.i]
        found == {t \in d.tags[kind] \cup s.tx.tags[kind] : t.name = name}
    IN  IF found # {}
        THEN [db |-> d,
              s |-> Advance([s EXCEPT
                       !.items[kind] = Append(@, (CHOOSE t \in found : TRUE).id),
                       !.i = @ + 1])]
        ELSE [db |-> d, s |-> [s EXCEPT !.pc = "flush_tag"]]

\* get_or_create committing each row it creates instead of flushing it
get_or_create_flush_commit(d, s) ==
    LET kind == Kinds[s.k]
        rows == d.tags[kind] \cup s.tx.tags[kind]
        row == [id |-> NewId(rows), name |-> NameList(s.p, kind)[s.i]]
    IN  IF ~TagUnique(rows, row.name)
        THEN [db |-> Rollback(d, s), s |-> Finish(s, 500, "IntegrityError")]
        ELSE [db |-> [d EXCEPT !.tags[kind] = @ \cup {row}, !.lock = 0,
                               !.countries = @ \cup s.tx.countries],
              s |-> Advance([s EXCEPT !.tx = EmptyTx,
                                      !.items[kind] = Append(@, row.id),
                                      !.made = @ \cup {<<kind, row.id>>},
                                      !.i = @ + 1])]

get_or_create_flush(d, s) ==
    LET kind == Kinds[s.k]
        rows == d.tags[kind] \cup s.tx.tags[kind]
        row == [id |-> NewId(rows), name |-> NameList(s.p, kind)[s.i]]
    IN  IF ~TagUnique(rows, row.name)
        THEN [db |-> Rollback(d, s), s |-> Finish(s, 500, "IntegrityError")]
        ELSE [db |-> [d EXCEPT !.lock = s.id],
              s |-> Advance([s EXCEPT !.tx.tags[kind] = @ \cup {row},
                                      !.items[kind] = Append(@, row.id),
                                      !.made = @ \cup {<<kind, row.id>>},
                                      !.i = @ + 1])]

post_commit(d, s) ==
    LET m == [id |-> NewId(d.movies), name |-> s.p.name, date |-> s.p.date,
              score |-> s.p.score, overview |-> s.p.overview,
              status |-> s.p.status, budget |-> s.p.budget,
              revenue |-> s.p.revenue, country_id |-> s.country]
    IN  IF ~MovieUnique(d.movies, m)
        THEN [db |-> Rollback(d, s), s |-> Finish(s, 500, "IntegrityError")]
        ELSE [db |-> [movies |-> d.movies \cup {m},
                      countries |-> d.countries \cup s.tx.countries,
                      tags |-> [k \in KindSet |-> d.tags[k] \cup s.tx.tags[k]],
                      links |-> [k \in KindSet |->
                                   d.links[k] \cup LinkRows(m.id, s.items[k])],
                      lock |-> 0],
              s |-> [s EXCEPT !.pc = "detail", !.movie = m.id, !.tx = EmptyTx,
                              !.made = @ \cup {<<"movie", m.id>>}]]

post_detail(d, s) ==
    IF \E m \in d.movies : m.id = s.movie
    THEN [db |-> d, s |-> Finish(s, 201, "")]
    ELSE [db |-> d, s |-> Finish(s, 500, "InvalidRequestError")]

PostStep(d, s) ==
    CASE s.pc = "check" -> post_check(d, s)
      [] s.pc = "select_country" -> post_select_country(d, s)
      [] s.pc = "flush_country" -> post_flush_country(d, s)
      [] s.pc = "select_tag" -> get_or_create_select(d, s)
      [] s.pc = "flush_tag" -> get_or_create_flush(d, s)
      [] s.pc = "commit" -> post_commit(d, s)
      [] OTHER -> post_detail(d, s)

\* a statement that writes waits while another session holds the write lock
Writes(s) == s.pc \in {"flush_country", "flush_tag", "commit"}
Blocked(d, s) == Writes(s) /\ d.lock \notin {0, s.id}

RECURSIVE RunPost(_, _)
RunPost(d, s) ==
    IF s.pc = "done" THEN [db |-> d, s |-> s]
    ELSE LET r == PostStep(d, s) IN RunPost(r.db, r.s)

(***************************************************************************)
(* Requests handled one at a time: each action is a whole handler.  req,    *)
(* resp and before hold the request being answered, its response and the   *)
(* store it found; respond sends the response and forgets them.            *)
(***************************************************************************)
Reply(status, error, movie) == [status |-> status, error |-> error, movie |-> movie]

post_movie(p) ==
    /\ resp = NoResp
    /\ req' = [op |-> "post", p |-> p]
    /\ before' = db
    /\ UNCHANGED sess
    /\ IF ~MovieCreateSchema(p)
       THEN db' = db /\ resp' = Reply(422, "ValidationError", 0)
       ELSE LET r == RunPost(db, NewPost(1, 0, p))
            IN  db' = r.db /\ resp' = Reply(r.s.status, r.s.error, r.s.movie)

get_movie(movie_id) ==
    /\ resp = NoResp
    /\ req' = [op |-> "get", id |-> movie_id]
    /\ before' = db
    /\ UNCHANGED <<db, sess>>
    /\ IF \E m \in db.movies : m.id = movie_id
       THEN resp' = Reply(200, "", movie_id)
       ELSE resp' = Reply(404, "NotFound", 0)

\* delete_movie taking the related rows no movie points to any more with it
delete_movie_orphans(movie_id) ==
    /\ resp = NoResp
    /\ req' = [op |-> "delete", id |-> movie_id]
    /\ before' = db
    /\ UNCHANGED sess
    /\ IF \E m \in db.movies : m.id = movie_id
       THEN /\ db' = LET d == DeleteRow(db, movie_id)
                     IN  [d EXCEPT !.tags = [k \in KindSet |->
                            {t \in @[k] : \E l \in d.links[k] : l[2] = t.id}]]
            /\ resp' = Reply(204, "", movie_id)
       ELSE db' = db /\ resp' = Reply(404, "NotFound", 0)

delete_movie(movie_id) ==
    /\ resp = NoResp
    /\ req' = [op |-> "delete", id |-> movie_id]
    /\ before' = db
    /\ UNCHANGED sess
    /\ IF \E m \in db.movies : m.id = movie_id
       THEN /\ db' = DeleteRow(db, movie_id)
            /\ resp' = Reply(204, "", movie_id)
       ELSE db' = db /\ resp' = Reply(404, "NotFound", 0)

\* movie_update.dict(): every key, the unset ones with their default None
update_data_all(u) == [keys |-> Fields, nulls |-> u.nulls \cup (Fields \ u.set)]

\* movie_update.dict(exclude_unset=True): the keys the payload carries, and
\* which of them carry None
update_data(u) == [keys |-> u.set, nulls |-> u.nulls]

\* for key, value in update_data.items(): setattr(movie, key, value)
Pick(data, u, movie, f) == IF f \in data.keys THEN u.val[f] ELSE movie[f]

setattrs(movie, u, data) ==
    [id |-> movie.id,
     name |-> Pick(data, u, movie, "name"),
     date |-> Pick(data, u, movie, "date"),
     score |-> Pick(data, u, movie, "score"),
     overview |-> Pick(data, u, movie, "overview"),
     status |-> Pick(data, u, movie, "status"),
     budget |-> Pick(data, u, movie, "budget"),
     revenue |-> Pick(data, u, movie, "revenue"),
     country_id |-> movie.country_id]

\* NOT NULL on the Movie columns: no attribute was set to None
NotNull(data) == data.nulls = {}

update_movie(movie_id, u) ==
    /\ resp = NoResp
    /\ req' = [op |-> "patch", id |-> movie_id, u |-> u]
    /\ before' = db
    /\ UNCHANGED sess
    /\ IF ~MovieUpdateSchema(u)
       THEN db' = db /\ resp' = Reply(422, "ValidationError", 0)
       ELSE IF ~\E m \in db.movies : m.id = movie_id
       THEN db' = db /\ resp' = Reply(404, "NotFound", 0)
       ELSE LET movie == CHOOSE m \in db.movies : m.id = movie_id
                data == update_data(u)
                new == setattrs(movie, u, data)
            IN  IF NotNull(data) /\ MovieUnique(db.movies, new)
                THEN /\ db' = [db EXCEPT !.movies = (@ \ {movie}) \cup {new}]
                     /\ resp' = Reply(200, "", movie_id)
                ELSE db' = db /\ resp' = Reply(500, "IntegrityError", 0)

respond ==
    /\ resp # NoResp
    /\ req' = NoReq
    /\ resp' = NoResp
    /\ before' = EmptyDb
    /\ UNCHANGED <<db, sess>>

(***************************************************************************)
(* Request payloads.                                                       *)
(***************************************************************************)
Base ==
    [name |-> "Dune", date |-> 10, score |-> 55, overview |-> "o1",
     status |-> "Released", budget |-> 100, revenue |-> 200, country |-> "USA",
     genres |-> <<"Sci-Fi">>, actors |-> <<"Actor1">>, languages |-> <<"English">>]

GenreLists == {<<"Sci-Fi">>, <<"Drama", "Sci-Fi", "Drama">>}

ValidCreates ==
    {[Base EXCEPT !.name = n, !.date = d, !.genres = g] :
        n \in {"Dune", "Heat"}, d \in {10, 20}, g \in GenreLists}
    \cup {[Base EXCEPT !.name = "Heat", !.date = 20, !.country = "FRA"]}

BadCreates ==
    {[Base EXCEPT !.name = LongName], [Base EXCEPT !.date = 400],
     [Base EXCEPT !.score = 101], [Base EXCEPT !.score = -1],
     [Base EXCEPT !.budget = -1], [Base EXCEPT !.revenue = -1],
     [Base EXCEPT !.status = "Bogus"],
     [Base EXCEPT !.country = "US"], [Base EXCEPT !.country = "ZZZ"]}

CreatePayloads == ValidCreates \cup BadCreates

UpdVals ==
    [name : {"Heat", LongName}, date : {20}, score : {90, 101},
     overview : {"o1"}, status : {"Released"},
     budget : {100, -1}, revenue : {200, -1}]

DefaultVal ==
    [name |-> "Heat", date |-> 20, score |-> 90, overview |-> "o1",
     status |-> "Released", budget |-> 100, revenue |-> 200]

\* the keys the payloads also send as null (every key is Optional)
NullKeys == {"score"}

SmallSets == {S \in SUBSET Fields : Cardinality(S) <= MaxSet}

UpdatePayloads ==
    {u \in [set : SmallSets, nulls : SUBSET NullKeys, val : UpdVals] :
        /\ u.nulls \subseteq u.set
        /\ \A f \in Fields : ~Given(u, f) => u.val[f] = DefaultVal[f]}

MovieIds == 1..MaxMovies

(***************************************************************************)
(* The sequential service.                                                 *)
(***************************************************************************)
Procs == {1, 2}

Init ==
    /\ db = EmptyDb
    /\ req = NoReq
    /\ resp = NoResp
    /\ before = EmptyDb
    /\ sess = [r \in Procs |-> IdleSess(0)]

Next ==
    \/ \E p \in CreatePayloads :
          Cardinality(db.movies) < MaxMovies /\ post_movie(p)
    \/ \E id \in MovieIds : get_movie(id)
    \/ \E id \in MovieIds : delete_movie(id)
    \/ \E id \in MovieIds, u \in UpdatePayloads : update_movie(id, u)
    \/ respond

Spec == Init /\ [][Next]_vars

(***************************************************************************)
(* Concurrent creates: each worker runs post_movie one awaited statement   *)
(* at a time on its own session.                                           *)
(***************************************************************************)
RacePayloads ==
    {[Base EXCEPT !.name = n, !.genres = g] :
        n \in {"Dune", "Heat", "Solaris"}, g \in {<<"Sci-Fi">>, <<"Drama">>}}
    \cup {[Base EXCEPT !.country = "ZZZ"]}

post_movie_begin(r, p) ==
    /\ sess[r].pc = "idle"
    /\ sess[r].calls < MaxCalls
    /\ sess' = [sess EXCEPT ![r] =
                  IF MovieCreateSchema(p)
                  THEN NewPost(r, sess[r].calls + 1, p)
                  ELSE Finish(NewPost(r, sess[r].calls + 1, p), 422,
                              "ValidationError")]
    /\ UNCHANGED <<db, req, resp, before>>

post_movie_step(r) ==
    /\ sess[r].pc \notin {"idle", "done"}
    /\ sess[r].op = "post"
    /\ ~Blocked(db, sess[r])
    /\ LET res == PostStep(db, sess[r])
       IN  db' = res.db /\ sess' = [sess EXCEPT ![r] = res.s]
    /\ UNCHANGED <<req, resp, before>>

\* the response leaves; the worker takes the next request
return(r) ==
    /\ sess[r].pc = "done"
    /\ sess' = [sess EXCEPT ![r] = IdleSess(sess[r].calls)]
    /\ UNCHANGED <<db, req, resp, before>>

NextRace ==
    \/ \E r \in Procs, p \in RacePayloads : post_movie_begin(r, p)
    \/ \E r \in Procs : post_movie_step(r)
    \/ \E r \in Procs : return(r)

SpecRace == Init /\ [][NextRace]_vars

(***************************************************************************)
(* get_movies, one action per awaited query, beside creates and deletes.   *)
(***************************************************************************)
NoLink == <<>>
Link(page, per_page) == <<"/theater/movies/", page, per_page>>

NewList(id, n, page, per_page) ==
    [id |-> id, calls |-> n, op |-> "list", pc |-> "count",
     page |-> page, per_page |-> per_page,
     total_items |-> 0, total_pages |-> 0,
     seen |-> {}, fetched_from |-> {}, third |-> FALSE,
     movies |-> <<>>, prev_page |-> NoLink, next_page |-> NoLink,
     at |-> "", status |-> 0, error |-> ""]

EndList(s, status, error) ==
    [s EXCEPT !.pc = "done", !.at = s.pc, !.status = status, !.error = error]

\* Query(1, ge=1) and Query(10, ge=1, le=20)
QueryOk(page, per_page) == page >= 1 /\ per_page >= 1 /\ per_page <= MaxPerPage

RECURSIVE SortDesc(_)
SortDesc(S) ==
    IF S = {} THEN <<>> ELSE <<MaxOf(S)>> \o SortDesc(S \ {MaxOf(S)})

\* select(MovieModel).order_by(desc(MovieModel.id)).offset(o).limit(n)
PageSlice(rows, o, n) ==
    LET all == SortDesc(Ids(rows))
        last == IF o + n < Len(all) THEN o + n ELSE Len(all)
    IN  SubSeq(all, o + 1, last)

\* total_pages = total_items // per_page + 1
total_pages_floor(total_items, per_page) == total_items \div per_page + 1

\* total_pages = (total_items + per_page - 1) // per_page
total_pages_of(total_items, per_page) == (total_items + per_page - 1) \div per_page

\* offset = page * per_page
offset_from_page(page, per_page) == page * per_page

\* offset = (page - 1) * per_page
offset_of(page, per_page) == (page - 1) * per_page

get_movies_count(r, page, per_page) ==
    /\ sess[r].pc = "idle"
    /\ LET s == [NewList(r, sess[r].calls, page, per_page) EXCEPT
                    !.seen = db.movies,
                    !.total_items = Cardinality(db.movies)]
           pages == total_pages_of(s.total_items, per_page)
       IN  sess' = [sess EXCEPT ![r] =
              IF ~QueryOk(page, per_page) THEN EndList(s, 422, "ValidationError")
              ELSE IF s.total_items = 0 THEN EndList(s, 404, "NotFound")
              ELSE IF page > pages
                   THEN EndList([s EXCEPT !.total_pages = pages], 404, "NotFound")
                   ELSE [s EXCEPT !.total_pages = pages, !.pc = "fetch"]]
    /\ UNCHANGED <<db, req, resp, before>>

get_movies_fetch(r) ==
    /\ sess[r].pc = "fetch"
    /\ LET s == sess[r]
           movies == PageSlice(db.movies, offset_of(s.page, s.per_page), s.per_page)
           got == [s EXCEPT !.fetched_from = db.movies, !.movies = movies]
       IN  sess' = [sess EXCEPT ![r] =
              IF movies = <<>>
              THEN EndList([got EXCEPT !.third = TRUE], 404, "NotFound")
              ELSE EndList([got EXCEPT
                      !.prev_page = IF s.page > 1
                                    THEN Link(s.page - 1, s.per_page) ELSE NoLink,
                      !.next_page = IF s.page < s.total_pages
                                    THEN Link(s.page + 1, s.per_page) ELSE NoLink],
                      200, "")]
    /\ UNCHANGED <<db, req, resp, before>>

ListPayloads == {[Base EXCEPT !.date = d] : d \in 1..MaxCatalog}

Lister == 1

\* rows in which two versions of the movie table differ
Changed(a, b) == (a \ b) \cup (b \ a)

\* the list call has no response waiting, and fewer than MaxBetween changes
\* were committed since its count if it has not fetched yet
MayCommit ==
    /\ sess[Lister].pc # "done"
    /\ sess[Lister].pc = "fetch"
       => Cardinality(Changed(sess[Lister].seen, db.movies)) < MaxBetween

NextList ==
    \/ \E p \in ListPayloads :
          Cardinality(db.movies) < MaxCatalog /\ MayCommit /\ post_movie(p)
    \/ \E id \in 1..MaxCatalog : MayCommit /\ delete_movie(id)
    \/ respond
    \/ \E page \in 0..MaxPage, per_page \in 0..(MaxPerPage + 1) :
          resp = NoResp /\ get_movies_count(Lister, page, per_page)
    \/ get_movies_fetch(Lister)
    \/ return(Lister)

SpecList == Init /\ [][NextList]_vars

(***************************************************************************)
(* Properties of the sequential service.                                   *)
(***************************************************************************)
SamePair(a, b) == a.name = b.name /\ a.date = b.date

TagNames(list) == {list[i] : i \in 1..Len(list)}

\* C2: a create that reaches post_movie with the (name, date) pair of a
\* stored movie is answered 409 Conflict and leaves every table as it was.
C2_DuplicateCreateConflicts ==
    (/\ req.op = "post"
     /\ MovieCreateSchema(req.p)
     /\ \E m \in before.movies : SamePair(m, req.p))
    => (resp.status = 409 /\ db = before)

\* C2 witness: a valid create repeating a stored pair was answered 409.
C2_Witness ==
    /\ req.op = "post"
    /\ MovieCreateSchema(req.p)
    /\ \E m \in before.movies : SamePair(m, req.p)
    /\ resp.status = 409

MovieOf(d, id) == CHOOSE m \in d.movies : m.id = id

\* the update of req changed exactly the keys it carries, to their values
ExactlySet ==
    LET old == MovieOf(before, req.id)
        new == MovieOf(db, req.id)
    IN  /\ \E m \in db.movies : m.id = req.id
        /\ \A f \in Fields :
              new[f] = IF f \in req.u.set THEN req.u.val[f] ELSE old[f]
        /\ new.country_id = old.country_id
        /\ db.movies \ {new} = before.movies \ {old}
        /\ db.countries = before.countries
        /\ db.tags = before.tags
        /\ db.links = before.links

\* the store refuses the update: a key set to null, or the pair of another movie
Refused ==
    \/ req.u.nulls # {}
    \/ \E o \in before.movies :
          /\ o.id # req.id
          /\ SamePair(setattrs(MovieOf(before, req.id), req.u,
                               [keys |-> req.u.set, nulls |-> req.u.nulls]), o)

C8_DeleteFrame ==
    req.op = "delete"
    => IF \E m \in before.movies : m.id = req.id
       THEN /\ resp.status = 204
            /\ db.movies = before.movies \ {MovieOf(before, req.id)}
            /\ \A k \in KindSet :
                  db.links[k] = {l \in before.links[k] : l[1] # req.id}
            /\ db.tags = before.tags
            /\ db.countries = before.countries
       ELSE resp.status = 404 /\ db = before

\* C8 witness: the deleted movie was the only one linked to some genre row
\* and the only one of its country, and another movie stays.
C8_Witness ==
    /\ req.op = "delete"
    /\ resp.status = 204
    /\ db.movies # {}
    /\ \E t \in db.tags["genre"] : \A l \in db.links["genre"] : l[2] # t.id
    /\ \E c \in db.countries : \A m \in db.movies : m.country_id # c.id

\* the bounds of spec.md 4.2 on a create payload / on the keys of an update
BreaksCreate(p) ==
    \/ Len(p.name) > MaxNameLen
    \/ p.score < 0 \/ p.score > MaxScore
    \/ p.budget < 0
    \/ p.revenue < 0

BreaksUpdate(u) ==
    \/ Given(u, "name") /\ Len(u.val.name) > MaxNameLen
    \/ Given(u, "score") /\ (u.val.score < 0 \/ u.val.score > MaxScore)
    \/ Given(u, "budget") /\ u.val.budget < 0
    \/ Given(u, "revenue") /\ u.val.revenue < 0

\* C9 as claimed: every stored movie keeps name length <= 255, score in
\* [0, 100], budget >= 0 and revenue >= 0, and a create or update payload
\* breaking one of these is answered 422 and changes nothing.
C9_AsClaimed ==
    /\ \A m \in db.movies :
          /\ Len(m.name) <= MaxNameLen
          /\ m.score >= 0 /\ m.score <= MaxScore
          /\ m.budget >= 0
          /\ m.revenue >= 0
    /\ (req.op = "post" /\ BreaksCreate(req.p))
       => (resp.status = 422 /\ db = before)
    /\ (req.op = "patch" /\ BreaksUpdate(req.u))
       => (resp.status = 422 /\ db = before)

(***************************************************************************)
(* Properties of concurrent creates.                                       *)
(***************************************************************************)
\* the tables of a store, whoever holds its write lock
Tables(d) == [d EXCEPT !.lock = 0]

\* row x = <<table, id>> is committed in store d
InStore(d, x) ==
    CASE x[1] = "country" -> x[2] \in Ids(d.countries)
      [] x[1] = "movie" -> x[2] \in Ids(d.movies)
      [] OTHER -> x[2] \in Ids(d.tags[x[1]])

\* C5: the statement at which a create fails leaves the committed tables
\* as they are, and none of the Country, Genre, Actor or Language rows the
\* request inserted is committed.
C5_AllOrNothing ==
    [][\A r \in Procs :
          (/\ sess[r].pc \notin {"idle", "done"}
           /\ sess'[r].pc = "done"
           /\ sess'[r].status # 201)
          => /\ Tables(db') = Tables(db)
             /\ \A x \in sess'[r].made : ~InStore(db', x)]_vars

\* C5 witness: a create failed after it had inserted rows.
C5_Witness ==
    \E r \in Procs :
        /\ sess[r].pc = "done"
        /\ sess[r].status # 201
        /\ sess[r].made # {}

\* C6 as claimed: however concurrent creates interleave, each related table
\* keeps one row per name, and no create ends at a get_or_create insert with
\* anything but success or a Conflict.
C6_AsClaimed ==
    /\ \A k \in KindSet : \A a \in db.tags[k] : \A b \in db.tags[k] :
          a.name = b.name => a = b
    /\ \A r \in Procs :
          (sess[r].pc = "done" /\ sess[r].at = "flush_tag")
          => sess[r].status \in {201, 409}

(***************************************************************************)
(* Properties of get_movies.                                               *)
(***************************************************************************)
\* the list calls answered 200
Listed == {r \in Procs : sess[r].pc = "done" /\ sess[r].op = "list"
                         /\ sess[r].status = 200}

\* C1: a successful list reports the number of movies it counted, the least
\* number of pages of per_page items holding them, no prev_page exactly on
\* page 1, no next_page exactly on the last page, and otherwise links to
\* page - 1 and page + 1 with the same per_page.
C1_Pagination ==
    \A r \in Listed :
        LET s == sess[r]
        IN  /\ s.total_items = Cardinality(s.seen)
            /\ s.total_items >= 1
            /\ s.per_page \in 1..MaxPerPage
            /\ s.page \in 1..s.total_pages
            /\ s.total_pages * s.per_page >= s.total_items
            /\ (s.total_pages - 1) * s.per_page < s.total_items
            /\ (s.prev_page = NoLink) <=> (s.page = 1)
            /\ (s.next_page = NoLink) <=> (s.page = s.total_pages)
            /\ s.prev_page # NoLink => s.prev_page = Link(s.page - 1, s.per_page)
            /\ s.next_page # NoLink => s.next_page = Link(s.page + 1, s.per_page)

\* C1 witness: the second of two pages of a three-movie catalog was listed.
C1_Witness ==
    \E r \in Listed :
        /\ sess[r].total_items = 3
        /\ sess[r].per_page = 2
        /\ sess[r].page = 2

\* the list calls answered with valid page and per_page
Answered == {r \in Procs : sess[r].pc = "done" /\ sess[r].op = "list"
                           /\ QueryOk(sess[r].page, sess[r].per_page)}

\* the least n with n * per_page >= total
CeilDiv(total, per_page) ==
    CHOOSE n \in 0..total : n * per_page >= total /\ (n - 1) * per_page < total

\* ids of S with exactly n ids of S above them
Ranked(S, n) == {i \in S : Cardinality({j \in S : j > i}) = n}

\* C10: a list call is answered 404 before it fetches exactly when it
\* counted no movie or page exceeds the pages counted; if the movie table
\* at the fetch is the one counted, the call is answered 200 with the
\* min(per_page, total - (page-1)*per_page) >= 1 ids that follow the first
\* (page-1)*per_page in descending order; the "no rows" 404 is only given
\* when a counted movie is gone at the fetch.
C10_NotFound ==
    \A r \in Answered :
        LET s == sess[r]
            total == Cardinality(s.seen)
            skip == (s.page - 1) * s.per_page
            rest == total - skip
            size == IF s.per_page < rest THEN s.per_page ELSE rest
        IN  /\ (s.at = "count")
               <=> (total = 0 \/ s.page > CeilDiv(total, s.per_page))
            /\ s.at = "count" => s.status = 404 /\ ~s.third
            /\ (s.at = "fetch" /\ s.fetched_from = s.seen)
               => /\ s.status = 200
                  /\ size >= 1
                  /\ Len(s.movies) = size
                  /\ \A j \in 1..size :
                        Ranked(Ids(s.seen), skip + j - 1) = {s.movies[j]}
            /\ s.third => (s.status = 404 /\ s.seen \ s.fetched_from # {})
            /\ s.status = 404 => (s.at = "count" \/ s.third)

\* C10 witness: the last, shorter page of an unchanged catalog was listed.
C10_Witness ==
    \E r \in Answered :
        /\ sess[r].at = "fetch"
        /\ sess[r].fetched_from = sess[r].seen
        /\ sess[r].page = 2
        /\ sess[r].per_page = 2
        /\ Len(sess[r].movies) = 1

====
